---- MODULE Spec2Model ----
(***************************************************************************)
(* Outbound registry and selection subsystem of clash-rs.                  *)
(*                                                                         *)
(*   - Config::try_from (config/internal/config.rs): normalisation of a    *)
(*     raw def::Config into Config, section by section, in the order the   *)
(*     struct literal evaluates its fields.                                *)
(*   - the proxy API handlers (app/api/handlers/proxy.rs): concurrent      *)
(*     requests against the ThreadSafeOutboundManager (a tokio RwLock)     *)
(*     and the per-selector control mutex.                                 *)
(***************************************************************************)
EXTENDS Integers, Sequences, FiniteSets, TLC

(***************************************************************************)
(* Bounds of the model.                                                    *)
(***************************************************************************)
MaxRules == 2
MaxProxies == 2
MaxGroups == 2
NumTasks == 2
MaxGen == 1

(***************************************************************************)
(* Names.                                                                  *)
(***************************************************************************)
PROXY_DIRECT == "DIRECT"
PROXY_REJECT == "REJECT"

NoName == "<missing>"
NonStringName == "<non-string>"

\* names a user-declared backend may carry
ProxyNameSet == {PROXY_DIRECT, PROXY_REJECT, "a", "b"}
\* names a user-declared group may carry
GroupNameSet == {PROXY_DIRECT, "a", "g"}

\* c.proxy entries: a mapping that OutboundProxyProtocol::try_from accepts
\* (ok) and that then has the given name, or one it refuses.
RawProxies ==
    [ok : {TRUE}, name : ProxyNameSet] \cup [ok : {FALSE}, name : {NoName}]

\* c.proxy_group entries: the value of the mapping's "name" key (a string,
\* not a string, or no such key) and whether the mapping converts into an
\* OutboundProxyGroup; a mapping without a string name never converts.
\* Such a mapping also lists its members ("proxies"): no name, a reserved
\* name, or a name that is known only when a backend or an earlier group
\* declares it.
GroupMemberLists == {<<>>, <<PROXY_DIRECT>>, <<"a">>}

RawGroups ==
    [ok : {TRUE}, name : GroupNameSet, members : GroupMemberLists]
        \cup [ok : {FALSE}, name : {"g", NoName, NonStringName},
               members : {<<PROXY_DIRECT>>}]

\* c.rule entries: a string that parses as a RuleType, and two that do not
RawRules == {"MATCH,DIRECT", "bad1", "bad2"}

\* c.tun: None, a mapping that deserializes, a mapping that does not
RawTun == {"none", "ok", "bad"}

\* c.proxy_provider: None, or a map with one body that converts or does not
RawProviders == {"none", "ok", "bad"}

(***************************************************************************)
(* Results of Config::try_from.                                            *)
(***************************************************************************)
NoErr == [kind |-> "none", at |-> ""]
ErrAt(kind, at) == [kind |-> kind, at |-> at]

Running == [tag |-> "Running", err |-> NoErr]
Ok == [tag |-> "Ok", err |-> NoErr]
Err(e) == [tag |-> "Err", err |-> e]
Panic(what) == [tag |-> "Panic", err |-> ErrAt("panic", what)]

VARIABLES
    cpc,      \* the section Config::try_from is evaluating
    c,        \* the part of the raw def::Config consumed so far
    cfg,      \* the fields of Config built so far
    res       \* what try_from returned

cvars == <<cpc, c, cfg, res>>

VARIABLES
    gen,        \* the generation of the registry behind the RwLock
    active,     \* the selected member of each selector group
    rwReaders,  \* read guards of the manager's RwLock held by each task
    rwWriter,   \* the writer of the RwLock: "idle", "waiting" or "writing"
    glock,      \* the holder of each selector's control mutex (0: free)
    mean,       \* per entry, the sum and number of its successful probes
    task        \* each request task: its request, position and response

rvars == <<gen, active, rwReaders, rwWriter, glock, mean, task>>

vars == <<cpc, c, cfg, res, gen, active, rwReaders, rwWriter, glock, mean,
          task>>

EmptyMap == [n \in {} |-> "x"]

\* HashMap::insert: an existing key is overwritten
MapInsert(m, k, v) == [n \in DOMAIN m \cup {k} |-> IF n = k THEN v ELSE m[n]]

\* the seed of the proxies fold
SeedProxiesDirectOnly == [n \in {PROXY_DIRECT} |-> "Direct"]

SeedProxies ==
    [n \in {PROXY_DIRECT, PROXY_REJECT} |->
        IF n = PROXY_DIRECT THEN "Direct" ELSE "Reject"]

\* let mut proxy_names = vec![DIRECT, REJECT]
SeedNames == <<PROXY_DIRECT, PROXY_REJECT>>

ConfigInit ==
    /\ cpc = "general"
    /\ c = [dns |-> "unread", tun |-> "unread", rule |-> <<>>,
            rule_rest |-> <<>>, proxy |-> <<>>, proxy_rest |-> <<>>,
            proxy_group |-> <<>>, proxy_provider |-> "unread"]
    /\ cfg = [rules |-> <<>>, proxies |-> SeedProxies, proxy_groups |-> EmptyMap,
              proxy_names |-> SeedNames, proxy_providers |-> {}]
    /\ res = Running

\* return Err(..) by `?`: the conversion ends, no Config is built
Fail(e) ==
    /\ cpc' = "done"
    /\ res' = Err(e)

\* general: bind_address.parse()? never fails (BindAddress::from_str is
\* Ok on every branch)
TryGeneral ==
    /\ cpc = "general"
    /\ UNCHANGED rvars
    /\ cpc' = "dns"
    /\ UNCHANGED <<c, cfg, res>>

\* dns: (&c).try_into()?
TryDns ==
    /\ cpc = "dns"
    /\ UNCHANGED rvars
    /\ \E d \in {"ok", "bad"} :
        /\ c' = [c EXCEPT !.dns = d]
        /\ IF d = "bad"
             THEN Fail(ErrAt("dns", "")) /\ UNCHANGED cfg
             ELSE cpc' = "tun" /\ UNCHANGED <<cfg, res>>

\* tun: None gives the default, Some(mapping) deserializes or fails
TryTun ==
    /\ cpc = "tun"
    /\ UNCHANGED rvars
    /\ \E t \in RawTun :
        /\ c' = [c EXCEPT !.tun = t]
        /\ IF t = "bad"
             THEN Fail(ErrAt("invalid tun config", "")) /\ UNCHANGED cfg
             ELSE cpc' = "rules" /\ UNCHANGED <<cfg, res>>

\* x.parse::<RuleType>()
ParseRuleOk(x) == x = "MATCH,DIRECT"

\* the sequences over S of length at most n: what an iterator that is
\* dropped early leaves unread
SeqUpTo(S, n) == UNION {[1..k -> S] : k \in 0..n}

\* a mutant of RuleNext: every rule is parsed and the error of the last
\* one that fails is returned
RuleNextReportLast ==
    /\ cpc = "rules"
    /\ UNCHANGED rvars
    /\ Len(c.rule) < MaxRules
    /\ \E x \in RawRules :
        IF ParseRuleOk(x)
          THEN /\ c' = [c EXCEPT !.rule = Append(@, x)]
               /\ cfg' = [cfg EXCEPT !.rules = Append(@, x)]
               /\ UNCHANGED <<cpc, res>>
          ELSE /\ \E rest \in SeqUpTo(RawRules, MaxRules - Len(c.rule) - 1) :
                    LET all == <<x>> \o rest
                        bad == {i \in DOMAIN all : ~ParseRuleOk(all[i])}
                        last == CHOOSE i \in bad : \A j \in bad : j <= i IN
                    /\ c' = [c EXCEPT !.rule = Append(@, x), !.rule_rest = rest]
                    /\ Fail(ErrAt("rule", all[last]))
               /\ UNCHANGED cfg

\* a mutant of RuleNext: a rule that does not parse is left out and the
\* conversion goes on
RuleNextSkipBad ==
    /\ cpc = "rules"
    /\ UNCHANGED rvars
    /\ Len(c.rule) < MaxRules
    /\ \E x \in RawRules :
        /\ c' = [c EXCEPT !.rule = Append(@, x)]
        /\ cfg' = [cfg EXCEPT !.rules = IF ParseRuleOk(x) THEN Append(@, x) ELSE @]
        /\ UNCHANGED <<cpc, res>>

\* rules: one element of c.rule.into_iter().map(parse).collect()?
RuleNext ==
    /\ cpc = "rules"
    /\ UNCHANGED rvars
    /\ Len(c.rule) < MaxRules
    /\ \E x \in RawRules :
        IF ParseRuleOk(x)
          THEN /\ c' = [c EXCEPT !.rule = Append(@, x)]
               /\ cfg' = [cfg EXCEPT !.rules = Append(@, x)]
               /\ UNCHANGED <<cpc, res>>
          ELSE /\ \E rest \in SeqUpTo(RawRules, MaxRules - Len(c.rule) - 1) :
                    c' = [c EXCEPT !.rule = Append(@, x), !.rule_rest = rest]
               /\ Fail(ErrAt("rule", x))
               /\ UNCHANGED cfg

\* rules: the iterator is exhausted; users never fails
RulesEnd ==
    /\ cpc = "rules"
    /\ UNCHANGED rvars
    /\ cpc' = "proxies"
    /\ UNCHANGED <<c, cfg, res>>

\* One step of the proxies try_fold closure on accumulator rv (with the
\* captured proxy_names) and element x: an error, or the new accumulator.
ProxyFoldNoCheck(rv, names, x) ==
    IF ~x.ok
      THEN [err |-> ErrAt("proxy parse", ""), rv |-> rv, names |-> names]
      ELSE [err |-> NoErr,
            rv |-> MapInsert(rv, x.name, "Server"),
            names |-> Append(names, x.name)]

ProxyFold(rv, names, x) ==
    IF ~x.ok
      THEN [err |-> ErrAt("proxy parse", ""), rv |-> rv, names |-> names]
      ELSE IF x.name \in DOMAIN rv
        THEN [err |-> ErrAt("duplicated proxy name", x.name),
              rv |-> rv, names |-> names]
        ELSE [err |-> NoErr,
              rv |-> MapInsert(rv, x.name, "Server"),
              names |-> Append(names, x.name)]

ProxyNext ==
    /\ cpc = "proxies"
    /\ UNCHANGED rvars
    /\ Len(c.proxy) < MaxProxies
    /\ \E x \in RawProxies :
        LET r == ProxyFold(cfg.proxies, cfg.proxy_names, x) IN
        IF r.err = NoErr
          THEN /\ c' = [c EXCEPT !.proxy = Append(@, x)]
               /\ cfg' = [cfg EXCEPT !.proxies = r.rv, !.proxy_names = r.names]
               /\ UNCHANGED <<cpc, res>>
          ELSE /\ \E rest \in SeqUpTo(RawProxies, MaxProxies - Len(c.proxy) - 1) :
                    c' = [c EXCEPT !.proxy = Append(@, x), !.proxy_rest = rest]
               /\ Fail(r.err)
               /\ UNCHANGED cfg

ProxiesEnd ==
    /\ cpc = "proxies"
    /\ UNCHANGED rvars
    /\ cpc' = "groups"
    /\ UNCHANGED <<c, cfg, res>>

\* mapping.try_into() for OutboundProxyGroup: the conversion sees the one
\* mapping only; it refuses a mapping that is malformed or has no string
\* name, and one that declares no member
GroupTryInto(m) ==
    IF ~m.ok \/ m.name \in {NoName, NonStringName}
      THEN "invalid"
      ELSE IF m.members = <<>> THEN "EmptyGroup" ELSE "ok"

\* One step of the proxy_groups try_fold closure: mapping.try_into() with
\* its map_err, then the push and the insert.
GroupFoldNoPush(rv, names, m) ==
    IF GroupTryInto(m) # "ok"
      THEN IF m.name = NoName
             THEN [out |-> Err(ErrAt("proxy group name missing", "")),
                   rv |-> rv, names |-> names]
             ELSE IF m.name = NonStringName
               THEN [out |-> Panic("proxy group name must be string"),
                     rv |-> rv, names |-> names]
               ELSE [out |-> Err(ErrAt("proxy group: " \o GroupTryInto(m),
                                       m.name)),
                     rv |-> rv, names |-> names]
      ELSE [out |-> Ok, rv |-> MapInsert(rv, m.name, "Group"), names |-> names]

GroupFold(rv, names, m) ==
    IF GroupTryInto(m) # "ok"
      THEN IF m.name = NoName
             THEN [out |-> Err(ErrAt("proxy group name missing", "")),
                   rv |-> rv, names |-> names]
             ELSE IF m.name = NonStringName
               THEN [out |-> Panic("proxy group name must be string"),
                     rv |-> rv, names |-> names]
               ELSE [out |-> Err(ErrAt("proxy group: " \o GroupTryInto(m),
                                       m.name)),
                     rv |-> rv, names |-> names]
      ELSE [out |-> Ok,
            rv |-> MapInsert(rv, m.name, "Group"),
            names |-> Append(names, m.name)]

GroupNext ==
    /\ cpc = "groups"
    /\ UNCHANGED rvars
    /\ Len(c.proxy_group) < MaxGroups
    /\ \E m \in RawGroups :
        LET r == GroupFold(cfg.proxy_groups, cfg.proxy_names, m) IN
        /\ c' = [c EXCEPT !.proxy_group = Append(@, m)]
        /\ IF r.out = Ok
             THEN /\ cfg' = [cfg EXCEPT !.proxy_groups = r.rv,
                                        !.proxy_names = r.names]
                  /\ UNCHANGED <<cpc, res>>
             ELSE /\ cpc' = "done"
                  /\ res' = r.out
                  /\ UNCHANGED cfg

GroupsEnd ==
    /\ cpc = "groups"
    /\ UNCHANGED rvars
    /\ cpc' = "providers"
    /\ UNCHANGED <<c, cfg, res>>

\* proxy_providers: the fold's Err is unwrapped by expect, then Ok(Self{..})
TryProviders ==
    /\ cpc = "providers"
    /\ UNCHANGED rvars
    /\ \E p \in RawProviders :
        /\ c' = [c EXCEPT !.proxy_provider = p]
        /\ cpc' = "done"
        /\ IF p = "bad"
             THEN res' = Panic("proxy provider parse error") /\ UNCHANGED cfg
             ELSE /\ res' = Ok
                  /\ cfg' = [cfg EXCEPT !.proxy_providers =
                                IF p = "ok" THEN {"p"} ELSE {}]

ConfigNext ==
    \/ TryGeneral
    \/ TryDns
    \/ TryTun
    \/ RuleNext
    \/ RulesEnd
    \/ ProxyNext
    \/ ProxiesEnd
    \/ GroupNext
    \/ GroupsEnd
    \/ TryProviders

(***************************************************************************)
(* The registry behind ThreadSafeOutboundManager and the proxy handlers.   *)
(***************************************************************************)
Tasks == 1..NumTasks

\* http::StatusCode
OK == 200
ACCEPTED == 202
BAD_REQUEST == 400
NOT_FOUND == 404
\* the request future was dropped before it produced a response
Cancelled == 0
NoStatus == -1

\* the entries of the registry, the same names in every generation
Registry == {PROXY_DIRECT, PROXY_REJECT, "a", "b", "g1", "g2"}
Selectors == {"g1", "g2"}
Members(g) == IF g = "g1" THEN <<"a", "b">> ELSE <<"b", PROXY_DIRECT>>
InitActive(g) == Members(g)[1]

\* the :name of the path of an update_proxy request, of a get_proxy or
\* get_proxy_delay request, and the name of an UpdateProxyRequest
PathNames == {"g1", "g2", "a", "zz"}
LookupNames == {"a", "zz"}
Candidates == {"b", PROXY_DIRECT}
Kinds == {"get_proxies", "get_proxy", "update_proxy", "get_proxy_delay"}

\* entries get_proxies reads while it builds its answer
SnapshotReads == 2

Idle ==
    [pc |-> "idle", kind |-> "", name |-> "", cand |-> "", pgen |-> 0,
     prev |-> "", snap |-> <<>>, nctrl |-> 0, nsel |-> 0, status |-> NoStatus,
     body |-> {}]

\* the task has answered with status s and a body with the keys b; its
\* locals are gone
AnsweredWith(t, s, b) ==
    [task EXCEPT ![t] = [Idle EXCEPT !.pc = "done", !.kind = task[t].kind,
                                     !.status = s, !.body = b]]

Answered(t, s) == AnsweredWith(t, s, {})

\* the delays a probe may measure, in ms
Latencies == {100, 300}

NoMean == [sum |-> 0, n |-> 0]

RuntimeInit ==
    /\ gen = 0
    /\ active = [g \in Selectors |-> InitActive(g)]
    /\ rwReaders = [t \in Tasks |-> 0]
    /\ rwWriter = "idle"
    /\ glock = [g \in Selectors |-> 0]
    /\ mean = [n \in Registry |-> NoMean]
    /\ task = [t \in Tasks |-> Idle]

Init == ConfigInit /\ RuntimeInit

\* tokio::sync::RwLock::read: granted unless a writer holds the lock or is
\* queued for it (the lock is fair, readers queue behind a waiting writer)
CanRead == rwWriter = "idle"

\* tokio::sync::Mutex::lock on the control of selector g
CtrlLockUnguarded(g) == TRUE

CtrlLockCoarse(g) == \A h \in Selectors : glock[h] = 0

CtrlLockFree(g) == glock[g] = 0

\* dropping every guard the task holds: the function returns or its future
\* is dropped
ReleaseAll(t) ==
    /\ rwReaders' = [rwReaders EXCEPT ![t] = 0]
    /\ glock' = [g \in Selectors |-> IF glock[g] = t THEN 0 ELSE glock[g]]

\* a request arrives: the router picks the handler
Request(t) ==
    /\ task[t].pc = "idle"
    /\ \E k \in Kinds :
        \/ /\ k = "get_proxies"
           /\ task' = [task EXCEPT ![t] =
                  [Idle EXCEPT !.pc = "snap_read", !.kind = k]]
        \/ /\ k \in {"get_proxy", "get_proxy_delay"}
           /\ \E n \in LookupNames :
               task' = [task EXCEPT ![t] =
                  [Idle EXCEPT !.pc = "mw_read", !.kind = k, !.name = n]]
        \/ /\ k = "update_proxy"
           /\ \E n \in PathNames, m \in Candidates :
               task' = [task EXCEPT ![t] =
                  [Idle EXCEPT !.pc = "mw_read", !.kind = k, !.name = n,
                               !.cand = m]]
    /\ UNCHANGED <<gen, active, rwReaders, rwWriter, glock>>
    /\ UNCHANGED mean
    /\ UNCHANGED cvars

\* get_proxies: the read guard is taken
GetProxiesEnter(t) ==
    /\ task[t].pc = "snap_read"
    /\ CanRead
    /\ rwReaders' = [rwReaders EXCEPT ![t] = @ + 1]
    /\ task' = [task EXCEPT ![t].pc = "snap_call"]
    /\ UNCHANGED <<gen, active, rwWriter, glock>>
    /\ UNCHANGED mean
    /\ UNCHANGED cvars

\* get_proxies: outbound_manager.get_proxies() reads one more entry
GetProxiesStep(t) ==
    /\ task[t].pc = "snap_call"
    /\ Len(task[t].snap) < SnapshotReads
    /\ task' = [task EXCEPT ![t].snap = Append(@, gen)]
    /\ UNCHANGED <<gen, active, rwReaders, rwWriter, glock>>
    /\ UNCHANGED mean
    /\ UNCHANGED cvars

\* get_proxies: the answer is built and the guard dropped
GetProxiesReturn(t) ==
    /\ task[t].pc = "snap_call"
    /\ Len(task[t].snap) = SnapshotReads
    /\ task' = Answered(t, OK)
    /\ ReleaseAll(t)
    /\ UNCHANGED <<gen, active, rwWriter>>
    /\ UNCHANGED mean
    /\ UNCHANGED cvars

\* the middleware's guard when it calls next.run(req): still held
MwGuardDropped(t) == rwReaders

MwGuardHeld(t) == [rwReaders EXCEPT ![t] = @ + 1]

\* find_proxy_by_name: read guard, get_outbound, then the handler or 404
FindProxyByName(t) ==
    /\ task[t].pc = "mw_read"
    /\ CanRead
    /\ IF task[t].name \in Registry
         THEN /\ rwReaders' = MwGuardHeld(t)
              /\ task' = [task EXCEPT ![t].pc = "h_read", ![t].pgen = gen]
              /\ UNCHANGED glock
         ELSE /\ task' = Answered(t, NOT_FOUND)
              /\ ReleaseAll(t)
    /\ UNCHANGED <<gen, active, rwWriter>>
    /\ UNCHANGED mean
    /\ UNCHANGED cvars

\* get_proxy: the handler takes a read guard of its own
GetProxyEnter(t) ==
    /\ task[t].pc = "h_read"
    /\ task[t].kind = "get_proxy"
    /\ CanRead
    /\ rwReaders' = [rwReaders EXCEPT ![t] = @ + 1]
    /\ task' = [task EXCEPT ![t].pc = "gp_call"]
    /\ UNCHANGED <<gen, active, rwWriter, glock>>
    /\ UNCHANGED mean
    /\ UNCHANGED cvars

\* get_proxy: outbound_manager.get_proxy(&proxy) answers for the handle
\* the middleware found
GetProxyReturn(t) ==
    /\ task[t].pc = "gp_call"
    /\ task' = Answered(t, OK)
    /\ ReleaseAll(t)
    /\ UNCHANGED <<gen, active, rwWriter>>
    /\ UNCHANGED mean
    /\ UNCHANGED cvars

\* get_selector_control(name): Some for a selector group
HasSelectorControl(n) == n \in Selectors

\* update_proxy: read guard, then the control handle or 404
UpdateProxyEnter(t) ==
    /\ task[t].pc = "h_read"
    /\ task[t].kind = "update_proxy"
    /\ CanRead
    /\ IF HasSelectorControl(task[t].name)
         THEN /\ rwReaders' = [rwReaders EXCEPT ![t] = @ + 1]
              /\ task' = [task EXCEPT ![t].pc = "ctrl_lock",
                                      ![t].nctrl = @ + 1]
              /\ UNCHANGED glock
         ELSE /\ task' = Answered(t, NOT_FOUND)
              /\ ReleaseAll(t)
    /\ UNCHANGED <<gen, active, rwWriter>>
    /\ UNCHANGED mean
    /\ UNCHANGED cvars

\* update_proxy: ctrl.lock().await
CtrlLock(t) ==
    /\ task[t].pc = "ctrl_lock"
    /\ CtrlLockFree(task[t].name)
    /\ glock' = [glock EXCEPT ![task[t].name] = t]
    /\ task' = [task EXCEPT ![t].pc = "select"]
    /\ UNCHANGED <<gen, active, rwReaders, rwWriter>>
    /\ UNCHANGED mean
    /\ UNCHANGED cvars

\* SelectorControl::select: the candidate must be a member of the group
SelectAny(g, m) == TRUE

SelectValid(g, m) == m \in {Members(g)[i] : i \in DOMAIN Members(g)}

\* update_proxy: the status of the response for the result of select
SelectStatusAccepted(ok) == ACCEPTED

SelectStatus(ok) == IF ok THEN ACCEPTED ELSE BAD_REQUEST

\* a mutant of SelectCheck: a select that fails is tried once more
SelectCheckRetry(t) ==
    /\ task[t].pc = "select"
    /\ IF SelectValid(task[t].name, task[t].cand)
         THEN /\ task' = [task EXCEPT ![t].pc = "select_swap",
                                      ![t].prev = active[task[t].name],
                                      ![t].nsel = @ + 1]
              /\ UNCHANGED <<rwReaders, glock>>
         ELSE IF task[t].nsel = 0
           THEN /\ task' = [task EXCEPT ![t].nsel = @ + 1]
                /\ UNCHANGED <<rwReaders, glock>>
           ELSE /\ task' = Answered(t, SelectStatus(FALSE))
                /\ ReleaseAll(t)
    /\ UNCHANGED <<gen, active, rwWriter>>
    /\ UNCHANGED mean
    /\ UNCHANGED cvars

\* select, first half: the membership test; a non-member is an Err, which
\* update_proxy answers at once
SelectCheck(t) ==
    /\ task[t].pc = "select"
    /\ IF SelectValid(task[t].name, task[t].cand)
         THEN /\ task' = [task EXCEPT ![t].pc = "select_swap",
                                      ![t].prev = active[task[t].name],
                                      ![t].nsel = @ + 1]
              /\ UNCHANGED <<rwReaders, glock>>
         ELSE /\ task' = Answered(t, SelectStatus(FALSE))
              /\ ReleaseAll(t)
    /\ UNCHANGED <<gen, active, rwWriter>>
    /\ UNCHANGED mean
    /\ UNCHANGED cvars

\* select, second half: active is replaced and the previous value returned
SelectSwap(t) ==
    /\ task[t].pc = "select_swap"
    /\ active' = [active EXCEPT ![task[t].name] = task[t].cand]
    /\ task' = Answered(t, SelectStatus(TRUE))
    /\ ReleaseAll(t)
    /\ UNCHANGED <<gen, rwWriter>>
    /\ UNCHANGED mean
    /\ UNCHANGED cvars

\* get_proxy_delay: read guard, then url_test is awaited
GetProxyDelayEnter(t) ==
    /\ task[t].pc = "h_read"
    /\ task[t].kind = "get_proxy_delay"
    /\ CanRead
    /\ rwReaders' = [rwReaders EXCEPT ![t] = @ + 1]
    /\ task' = [task EXCEPT ![t].pc = "url_test"]
    /\ UNCHANGED <<gen, active, rwWriter, glock>>
    /\ UNCHANGED mean
    /\ UNCHANGED cvars

\* url_test: a successful probe is folded into the entry's mean, a failed
\* one leaves it alone
MeanPolluted(m, ok, d) == [sum |-> m.sum + d, n |-> m.n + 1]

MeanAfter(m, ok, d) == IF ok THEN [sum |-> m.sum + d, n |-> m.n + 1] ELSE m

DelayStatus(ok) == IF ok THEN OK ELSE BAD_REQUEST

\* get_proxy_delay: the keys of the JSON body; the Ok arm fills a map with
\* delay and meanDelay and answers Json(delay)
DelayBody(ok) == IF ok THEN {"delay"} ELSE {}

\* get_proxy_delay: url_test comes back from the network with a delay or
\* an error
UrlTestReturn(t) ==
    /\ task[t].pc = "url_test"
    /\ \E ok \in BOOLEAN, d \in Latencies :
        /\ mean' = [mean EXCEPT ![task[t].name] = MeanAfter(@, ok, d)]
        /\ task' = AnsweredWith(t, DelayStatus(ok), DelayBody(ok))
    /\ ReleaseAll(t)
    /\ UNCHANGED <<gen, active, rwWriter>>
    /\ UNCHANGED cvars

Awaiting ==
    {"snap_read", "snap_call", "mw_read", "h_read", "gp_call", "ctrl_lock",
     "select", "select_swap", "url_test"}

\* the client goes away: the request future is dropped at an await point
\* and with it every guard it holds
Cancel(t) ==
    /\ task[t].pc \in Awaiting
    /\ task' = Answered(t, Cancelled)
    /\ ReleaseAll(t)
    /\ UNCHANGED <<gen, active, rwWriter>>
    /\ UNCHANGED mean
    /\ UNCHANGED cvars

\* reload: the write lock is requested
ReloadRequest ==
    /\ rwWriter = "idle"
    /\ gen < MaxGen
    /\ rwWriter' = "waiting"
    /\ UNCHANGED <<gen, active, rwReaders, glock, task>>
    /\ UNCHANGED mean
    /\ UNCHANGED cvars

\* reload: the write lock is granted once no read guard is left
ReloadAcquire ==
    /\ rwWriter = "waiting"
    /\ \A t \in Tasks : rwReaders[t] = 0
    /\ rwWriter' = "writing"
    /\ UNCHANGED <<gen, active, rwReaders, glock, task>>
    /\ UNCHANGED mean
    /\ UNCHANGED cvars

\* reload: the entry set is replaced by the next generation, the write
\* guard dropped
ReloadCommit ==
    /\ rwWriter = "writing"
    /\ gen' = gen + 1
    /\ active' = [g \in Selectors |-> InitActive(g)]
    /\ mean' = [n \in Registry |-> NoMean]
    /\ rwWriter' = "idle"
    /\ UNCHANGED <<rwReaders, glock, task>>
    /\ UNCHANGED cvars

Next ==
    \/ \E t \in Tasks :
        \/ Request(t)
        \/ GetProxiesEnter(t)
        \/ GetProxiesStep(t)
        \/ GetProxiesReturn(t)
        \/ FindProxyByName(t)
        \/ GetProxyEnter(t)
        \/ GetProxyReturn(t)
        \/ UpdateProxyEnter(t)
        \/ CtrlLock(t)
        \/ SelectCheck(t)
        \/ SelectSwap(t)
        \/ GetProxyDelayEnter(t)
        \/ UrlTestReturn(t)
        \/ Cancel(t)
    \/ ReloadRequest
    \/ ReloadAcquire
    \/ ReloadCommit

Spec == Init /\ [][Next]_vars

SpecConfig == Init /\ [][ConfigNext]_vars

(***************************************************************************)
(* Properties of Config::try_from.                                         *)
(***************************************************************************)
Range(s) == {s[i] : i \in DOMAIN s}

NoDuplicates(s) == \A i, j \in DOMAIN s : i # j => s[i] # s[j]

\* the names accepted before the i-th declared backend
NamesBeforeProxy(i) ==
    {PROXY_DIRECT, PROXY_REJECT} \cup {c.proxy[j].name : j \in 1..(i - 1)}

\* the names accepted before the i-th declared group: the reserved names,
\* the backends and the groups declared earlier
NamesBeforeGroup(i) ==
    {PROXY_DIRECT, PROXY_REJECT}
        \cup {c.proxy[j].name : j \in DOMAIN c.proxy}
        \cup {c.proxy_group[j].name : j \in 1..(i - 1)}

\* C1: every accepted configuration has a globally unique name space:
\* proxy_names holds no name twice and no name is a key of both proxies
\* and proxy_groups.
C1_NameSpaceUnique ==
    res.tag = "Ok" =>
        /\ NoDuplicates(cfg.proxy_names)
        /\ DOMAIN cfg.proxies \cap DOMAIN cfg.proxy_groups = {}

\* C2: a declared group whose name collides with a name accepted before it
\* (reserved, backend or earlier group) makes normalisation fail; it is
\* never taken into proxy_groups and proxy_names.
C2_GroupCollisionRejected ==
    \A i \in DOMAIN c.proxy_group :
        (c.proxy_group[i].ok /\ c.proxy_group[i].name \in NamesBeforeGroup(i))
            => res.tag = "Err"

\* C3: a declared backend named DIRECT, REJECT or like an earlier backend
\* makes try_from return the duplicated-proxy-name error for that name and
\* no Config; a backend with a fresh name is inserted into proxies and
\* appended to proxy_names in its place.
C3_ProxyDuplicateRejected ==
    \A i \in DOMAIN c.proxy :
        c.proxy[i].ok =>
            IF c.proxy[i].name \in NamesBeforeProxy(i)
              THEN /\ res = Err(ErrAt("duplicated proxy name", c.proxy[i].name))
                   /\ cpc = "done"
                   /\ i = Len(c.proxy)
              ELSE /\ c.proxy[i].name \in DOMAIN cfg.proxies
                   /\ cfg.proxies[c.proxy[i].name] = "Server"
                   /\ Len(cfg.proxy_names) >= i + 2
                   /\ cfg.proxy_names[i + 2] = c.proxy[i].name

\* backend a is accepted, a second backend a is refused
C3_Witness ==
    /\ Len(c.proxy) = 2
    /\ c.proxy[1] = [ok |-> TRUE, name |-> "a"]
    /\ c.proxy[2] = [ok |-> TRUE, name |-> "a"]
    /\ res = Err(ErrAt("duplicated proxy name", "a"))
    /\ cfg.proxy_names = <<PROXY_DIRECT, PROXY_REJECT, "a">>

\* a backend named like a reserved name is refused
C3_WitnessReserved ==
    /\ Len(c.proxy) = 1
    /\ c.proxy[1].name = PROXY_REJECT
    /\ res = Err(ErrAt("duplicated proxy name", PROXY_REJECT))
(***************************************************************************)
(* Properties of the handlers.                                             *)
(***************************************************************************)
InSelect(t, g) ==
    task[t].pc \in {"select", "select_swap"} /\ task[t].name = g

IsMember(g, m) == \E i \in DOMAIN Members(g) : Members(g)[i] = m

\* C4: a task waiting on the network inside url_test holds no guard of the
\* registry lock and no selector lock.
C4_ProbeHoldsNoLock ==
    \A t \in Tasks :
        task[t].pc = "url_test" =>
            /\ rwReaders[t] = 0
            /\ \A g \in Selectors : glock[g] # t

\* C5: at most one task is inside the select critical section of a group.
C5_SelectMutex ==
    \A g \in Selectors :
        \A t, u \in Tasks : (InSelect(t, g) /\ InSelect(u, g)) => t = u

\* one task is inside select on g2 while another waits for g2's lock
C5_Witness ==
    \E t, u \in Tasks :
        /\ t # u
        /\ task[t].pc = "select_swap" /\ task[t].name = "g2"
        /\ task[u].pc = "ctrl_lock" /\ task[u].name = "g2"

\* C6: the selections on one group form a chain: the previous value a
\* select returns is the value active held immediately before its own
\* swap (the initial active or the candidate of the select ordered just
\* before it), the swap makes its candidate active, and active changes in
\* no other way while the generation lasts; no update is lost.
C6_SelectSerialized ==
    [][\A g \in Selectors :
          /\ \A t \in Tasks :
                (task[t].pc = "select_swap" /\ task[t].name = g
                    /\ task'[t].status = ACCEPTED)
                  => (task[t].prev = active[g] /\ active'[g] = task[t].cand)
          /\ (active'[g] # active[g] /\ gen' = gen)
                  => \E t \in Tasks :
                        /\ task[t].pc = "select_swap" /\ task[t].name = g
                        /\ task'[t].status = ACCEPTED
                        /\ active'[g] = task[t].cand]_vars

\* g2 starts at b; one select made DIRECT active, and a second select,
\* for b, has read DIRECT as the previous value
C6_Witness ==
    \E t, u \in Tasks :
        /\ t # u
        /\ gen = 0
        /\ task[t].kind = "update_proxy" /\ task[t].status = ACCEPTED
        /\ task[u].pc = "select_swap" /\ task[u].name = "g2"
        /\ task[u].cand = "b" /\ task[u].prev = PROXY_DIRECT
        /\ active["g2"] = PROXY_DIRECT

\* C7: with no reload pending, a task is never held up by a selection on
\* another group: every read of the registry lock can be granted, the lock
\* of a group nobody is selecting on can be taken, and every step inside a
\* handler can be made, whatever selector locks other tasks hold.
C7_NoCrossBlocking ==
    \A t \in Tasks :
        /\ (task[t].pc = "snap_read" /\ rwWriter = "idle")
              => ENABLED GetProxiesEnter(t)
        /\ (task[t].pc = "mw_read" /\ rwWriter = "idle")
              => ENABLED FindProxyByName(t)
        /\ (task[t].pc = "h_read" /\ rwWriter = "idle")
              => ENABLED (\/ GetProxyEnter(t)
                          \/ UpdateProxyEnter(t)
                          \/ GetProxyDelayEnter(t))
        /\ (task[t].pc = "ctrl_lock"
              /\ \A u \in Tasks : ~InSelect(u, task[t].name))
              => ENABLED CtrlLock(t)
        /\ task[t].pc = "select" => ENABLED SelectCheck(t)
        /\ task[t].pc = "select_swap" => ENABLED SelectSwap(t)
        /\ task[t].pc = "gp_call" => ENABLED GetProxyReturn(t)

\* a select holds g1's lock while another task asks for g2's lock
C7_Witness ==
    \E t, u \in Tasks :
        /\ InSelect(t, "g1") /\ glock["g1"] = t
        /\ task[u].pc = "ctrl_lock" /\ task[u].name = "g2"
        /\ rwWriter = "idle"

\* C8: a select whose candidate is not a member of the group ends at its
\* next step, with a 400 response (or the request dropped), and leaves
\* every group's active as it was; it never reaches the swap.
C8_NotAMemberRejected ==
    [][\A t \in Tasks :
          (task[t].pc \in {"select", "select_swap"}
              /\ ~IsMember(task[t].name, task[t].cand)
              /\ task'[t] # task[t])
            => /\ task[t].pc = "select"
               /\ task'[t].pc = "done"
               /\ task'[t].status \in {BAD_REQUEST, Cancelled}
               /\ active' = active]_vars

\* update_proxy answered 400 for a non-member; g1 is still at a
C8_Witness ==
    \E t \in Tasks :
        /\ task[t].kind = "update_proxy" /\ task[t].status = BAD_REQUEST
        /\ active["g1"] = "a"

\* C9: every selector's active is one of its members, and the members
\* list is not empty.
C9_ActiveIsMember ==
    \A g \in Selectors :
        /\ Len(Members(g)) > 0
        /\ IsMember(g, active[g])

\* a select changed g1, another update_proxy was dropped
C9_Witness ==
    \E t \in Tasks :
        /\ active["g1"] = "b"
        /\ task[t].kind = "update_proxy" /\ task[t].status = Cancelled

\* C10: every entry a snapshot has read, and the handle a request found
\* in find_proxy_by_name, belong to the generation the registry has for
\* as long as the snapshot or the request lasts: no reload takes effect
\* in between.
C10_SingleGeneration ==
    \A t \in Tasks :
        /\ \A i \in DOMAIN task[t].snap : task[t].snap[i] = gen
        /\ task[t].pc \in {"h_read", "gp_call", "ctrl_lock", "select",
                           "select_swap", "url_test"}
              => task[t].pgen = gen

\* a reload asks for the write lock while a lookup and a snapshot are
\* under way
C10_Witness ==
    \E t, u \in Tasks :
        /\ rwWriter = "waiting"
        /\ task[t].pc = "gp_call"
        /\ task[u].pc = "snap_call" /\ Len(task[u].snap) = 1
(***************************************************************************)
(* Further properties of Config::try_from.                                 *)
(***************************************************************************)
NamesOf(s) == [i \in DOMAIN s |-> s[i].name]

\* C11: for an accepted configuration proxy_names is DIRECT, REJECT, the
\* backends in declaration order, then the groups in declaration order: a
\* function of the input alone, so the same on every run.
C11_DeclarationOrder ==
    res.tag = "Ok" =>
        cfg.proxy_names =
            <<"DIRECT", "REJECT">> \o NamesOf(c.proxy) \o NamesOf(c.proxy_group)

\* backends a, b and group g give [DIRECT, REJECT, a, b, g]
C11_Witness ==
    /\ res.tag = "Ok"
    /\ NamesOf(c.proxy) = <<"a", "b">>
    /\ NamesOf(c.proxy_group) = <<"g">>
    /\ cfg.proxy_names = <<"DIRECT", "REJECT", "a", "b", "g">>

\* the sections other than proxy and proxy-group hold nothing invalid
RestValid ==
    /\ c.dns = "ok"
    /\ c.tun \in {"none", "ok"}
    /\ \A i \in DOMAIN c.rule : ParseRuleOk(c.rule[i])
    /\ c.proxy_provider \in {"none", "ok"}

\* C12: a configuration without backends and groups (and nothing invalid
\* elsewhere) is accepted, with proxies holding exactly DIRECT and REJECT
\* as the Direct and Reject built-ins, no group, and proxy_names
\* [DIRECT, REJECT].
C12_EmptyConfigSeed ==
    (cpc = "done" /\ c.proxy = <<>> /\ c.proxy_group = <<>> /\ RestValid)
      => /\ res.tag = "Ok"
         /\ DOMAIN cfg.proxies = {"DIRECT", "REJECT"}
         /\ cfg.proxies["DIRECT"] = "Direct"
         /\ cfg.proxies["REJECT"] = "Reject"
         /\ DOMAIN cfg.proxy_groups = {}
         /\ cfg.proxy_names = <<"DIRECT", "REJECT">>

\* the configuration that declares nothing at all has been converted
C12_Witness ==
    /\ cpc = "done" /\ res.tag = "Ok"
    /\ c.rule = <<>> /\ c.proxy = <<>> /\ c.proxy_group = <<>>
    /\ c.tun = "none" /\ c.proxy_provider = "none"

\* C13: a group with no member, or with a member that is not among the
\* names accepted before it, makes normalisation fail.
C13_GroupMembersChecked ==
    \A i \in DOMAIN c.proxy_group :
        LET m == c.proxy_group[i] IN
        (m.ok /\ (\/ m.members = <<>>
                  \/ \E k \in DOMAIN m.members :
                        m.members[k] \notin NamesBeforeGroup(i)))
            => res.tag # "Ok"

\* C14: a rule that does not parse ends the conversion with the error of
\* that rule and no Config, whatever else the configuration holds.
C14_InvalidRuleRejects ==
    \A i \in DOMAIN c.rule :
        ~ParseRuleOk(c.rule[i])
            => /\ cpc = "done"
               /\ res = Err(ErrAt("rule", c.rule[i]))

\* a valid rule, then one that does not parse
C14_Witness ==
    /\ c.rule = <<"MATCH,DIRECT", "bad1">>
    /\ res = Err(ErrAt("rule", "bad1"))

\* the i-th declared backend is refused by the fold
ProxyOffends(l, i) ==
    \/ ~l[i].ok
    \/ l[i].name \in {"DIRECT", "REJECT"} \cup {l[j].name : j \in 1..(i - 1)}

\* C19: the error returned is that of the first offending entry of its
\* section. With the whole rule list c.rule \o c.rule_rest, the error names
\* the earliest rule that does not parse; with the whole backend list
\* c.proxy \o c.proxy_rest, it is the error of the earliest backend the
\* fold refuses; and when a backend offends, no later section (groups,
\* providers) has been read, so none of their entries can take its place.
C19_FirstOffenderReported ==
    /\ LET rules == c.rule \o c.rule_rest
           bad == {i \in DOMAIN rules : ~ParseRuleOk(rules[i])} IN
       bad # {}
          => \E i \in bad :
                /\ \A j \in bad : i <= j
                /\ res = Err(ErrAt("rule", rules[i]))
    /\ LET proxies == c.proxy \o c.proxy_rest
           bad == {i \in DOMAIN proxies : ProxyOffends(proxies, i)} IN
       bad # {}
          => \E i \in bad :
                /\ \A j \in bad : i <= j
                /\ res = Err(IF proxies[i].ok
                               THEN ErrAt("duplicated proxy name", proxies[i].name)
                               ELSE ErrAt("proxy parse", ""))
                /\ c.proxy_group = <<>>
                /\ c.proxy_provider = "unread"

\* two rules that do not parse: the first is reported
C19_Witness ==
    /\ c.rule \o c.rule_rest = <<"bad2", "bad1">>
    /\ res = Err(ErrAt("rule", "bad2"))

\* two backends the fold refuses: the first is reported
C19_WitnessBackends ==
    /\ Len(c.proxy) = 1 /\ Len(c.proxy_rest) = 1
    /\ c.proxy[1].name = "DIRECT" /\ c.proxy_rest[1].name = "REJECT"
    /\ res = Err(ErrAt("duplicated proxy name", "DIRECT"))

\* C20: try_from ends with Ok or Err, never by a panic.
C20_NeverPanics ==
    /\ res.tag # "Panic"
    /\ cpc = "done" => res.tag \in {"Ok", "Err"}

(***************************************************************************)
(* Further properties of the handlers.                                     *)
(***************************************************************************)
InUpdateProxy(t) ==
    /\ task[t].kind = "update_proxy"
    /\ task[t].pc \in {"h_read", "ctrl_lock", "select", "select_swap"}

\* C15: an update_proxy call retrieves the selector control at most once
\* and calls select at most once; it ends with 202 after the swap, with 400
\* for a candidate that is not a member, with 404 for a name that has no
\* selector control, or with its future dropped; a select that fails ends
\* the call at that step, and every ending but 202 leaves active as it was.
C15_SingleAttempt ==
    [][\A t \in Tasks :
          (InUpdateProxy(t) /\ task'[t] # task[t]) =>
            /\ task'[t].nctrl <= 1
            /\ task'[t].nsel <= 1
            /\ (task[t].pc = "select" /\ ~IsMember(task[t].name, task[t].cand))
                  => task'[t].pc = "done"
            /\ (task'[t].pc = "done") =>
                  \/ /\ task'[t].status = ACCEPTED
                     /\ task[t].pc = "select_swap"
                     /\ task[t].nctrl = 1 /\ task[t].nsel = 1
                  \/ /\ task'[t].status = BAD_REQUEST
                     /\ task[t].pc = "select"
                     /\ ~IsMember(task[t].name, task[t].cand)
                     /\ active' = active
                  \/ /\ task'[t].status = NOT_FOUND
                     /\ task[t].pc = "h_read"
                     /\ task[t].name \notin Selectors
                     /\ active' = active
                  \/ /\ task'[t].status = Cancelled
                     /\ active' = active]_vars

\* one update_proxy was accepted and moved g2 to DIRECT, another was
\* answered 400
C15_Witness ==
    \E t, u \in Tasks :
        /\ task[t].kind = "update_proxy" /\ task[t].status = ACCEPTED
        /\ task[u].kind = "update_proxy" /\ task[u].status = BAD_REQUEST
        /\ active["g2"] = PROXY_DIRECT

\* C16: a url_test that fails is answered 400 by get_proxy_delay, and the
\* step leaves the mean of every backend and the active of every group as
\* they were.
C16_FailedProbeKeepsMean ==
    [][\A t \in Tasks :
          (task[t].pc = "url_test" /\ task'[t].pc = "done") =>
            /\ task'[t].status \in {OK, BAD_REQUEST, Cancelled}
            /\ (task'[t].status # OK) => mean' = mean
            /\ active' = active]_vars

\* the mean of a is 100 over one probe and another probe was answered 400
C16_Witness ==
    /\ mean["a"] = [sum |-> 100, n |-> 1]
    /\ \E t \in Tasks :
          task[t].kind = "get_proxy_delay" /\ task[t].status = BAD_REQUEST

\* the second read().await of a request to a named entity
HandlerRead(t) ==
    GetProxyEnter(t) \/ UpdateProxyEnter(t) \/ GetProxyDelayEnter(t)

\* C17: a request that holds the guard of find_proxy_by_name and is about
\* to read-lock the registry again is never stuck together with a reload
\* that waits for the write lock: one of the two can take its lock.
C17_RequestAndReloadProgress ==
    \A t \in Tasks :
        (task[t].pc = "h_read" /\ rwWriter = "waiting") =>
            (ENABLED HandlerRead(t)) \/ (ENABLED ReloadAcquire)

\* C18: the response of a get_proxy_delay whose probe succeeded carries
\* the delay and the meanDelay.
C18_ReportsBothParts ==
    \A t \in Tasks :
        (task[t].kind = "get_proxy_delay" /\ task[t].status = OK) =>
            {"delay", "meanDelay"} \subseteq task[t].body
====
